---- MODULE Spec2Model ----
(***************************************************************************)
(* A model of myr::chunk_vector (include/mastermyr/chunk_vector.hpp).      *)
(*                                                                         *)
(* The heap is a set of chunk addresses; a chunk is ChunkSize slots; a     *)
(* container is its chunk directory (std::vector<pointer> m_chunks, with   *)
(* the identity and capacity of the buffer data() points to) and m_size.   *)
(* Every member function is one action.  An operation that runs into       *)
(* undefined behaviour records the event and may either carry on or crash. *)
(*                                                                         *)
(* The last part models myr::runtime (src/runtime.cpp): the running flag,  *)
(* the queue of callbacks, and the place start() has reached in loop().    *)
(***************************************************************************)
EXTENDS Integers, Sequences, FiniteSets, TLC

\* template parameter ChunkSize (a power of two)
ChunkSize == 2
\* number of chunk addresses the allocator can hand out before bad_alloc
MaxChunks == 4
\* appends are offered while m_size is below this
MaxSize == 3
\* largest argument offered to reserve
MaxReserve == 5
\* width of size_type in bits
SizeBits == 4
\* call depth at which the stack is exhausted
MaxStack == 3
\* element values are 1..MaxValue
MaxValue == 2
\* callbacks registered with the runtime, over its life
MaxCallbacks == 4

SizeMod == 2 ^ SizeBits
Values == 1..MaxValue
Addrs == 1..MaxChunks
Conts == {"a", "b"}
AllocIds == {1, 2}

VARIABLES
    trivial,    \* std::is_trivially_destructible_v<value_type>: a type such as
                \* int, which can also be assigned to without being constructed
    pocca,      \* allocator_traits::propagate_on_container_copy_assignment
    pocma,      \* allocator_traits::propagate_on_container_move_assignment
    heap,       \* chunk address -> [st, al, slots]
    vec,        \* container name -> [alive, al, chunks, size, dirbuf, dircap];
                \* dirbuf tells the buffers data() has pointed to apart
    it,         \* an iterator the caller holds: [c, buf, idx], or NoIt
    lastOp,     \* the last call: [name, c, o, x, y, res, ret, ub]
    rt          \* the runtime: [running, callbacks, pc, made, late, invoked, active]

vars == <<trivial, pocca, pocma, heap, vec, it, lastOp, rt>>

----------------------------------------------------------------------------
\* Slots, chunks, containers

RawSlot == [life |-> "raw", val |-> 0]
LiveSlot(v) == [life |-> "live", val |-> v]

UnusedChunk == [st |-> "unused", al |-> 0, slots |-> [k \in 0..(ChunkSize - 1) |-> RawSlot]]

NoVec == [alive |-> FALSE, al |-> 0, chunks |-> <<>>, size |-> 0, dirbuf |-> 0, dircap |-> 0]
EmptyVec(al) == [alive |-> TRUE, al |-> al, chunks |-> <<>>, size |-> 0, dirbuf |-> 0, dircap |-> 0]

NoIt == [c |-> "none", buf |-> 0, idx |-> 0]

\* a runtime as constructed: m_running = false and an empty m_callbacks.
\* Callbacks are numbered in the order of their registration; pc is where
\* start() stands ("idle" outside it), made counts the registrations, late
\* those made by callbacks, invoked lists the calls begun and active holds
\* the callbacks begun and not yet returned.
NewRuntime ==
    [running |-> FALSE, callbacks |-> <<>>, pc |-> "idle", made |-> 0, late |-> 0,
     invoked |-> <<>>, active |-> {}]
NoOp == [name |-> "init", c |-> "none", o |-> "none", x |-> 0, y |-> 0, res |-> "ok", ret |-> 0, ub |-> {}]

Min(S) == CHOOSE x \in S : \A y \in S : x <= y
Max(a, b) == IF a >= b THEN a ELSE b

\* size_type arithmetic
SubMod(a, b) == (a - b + SizeMod) % SizeMod
AddMod(a, b) == (a + b) % SizeMod

\* The running state of one call: the heap, this container, the other
\* container, the exception in flight, the undefined-behaviour events met so
\* far, and the value returned.
Start(c, o) ==
    [h |-> heap, v |-> vec[c], o |-> IF o = "none" THEN NoVec ELSE vec[o],
     exc |-> "none", ub |-> {}, ret |-> 0]

Throw(S, e) == [S EXCEPT !.exc = e]
AddUB(S, e) == [S EXCEPT !.ub = @ \cup {e}]

\* an exception that leaves a noexcept function ends the program
noexcept(S) == IF S.exc # "none" THEN Throw(S, "terminate") ELSE S

\* what ends the program whatever else happened
Fatal == {"stack_overflow", "terminate"}

capacity(v) == Len(v.chunks) * ChunkSize

ChunkOf(v, i) == v.chunks[(i \div ChunkSize) + 1]
SlotAt(h, v, i) == h[ChunkOf(v, i)].slots[i % ChunkSize]

\* operator==: the sizes match and std::equal over both ranges
equal(h, v, w) ==
    /\ v.size = w.size
    /\ \A i \in 0..(v.size - 1) : SlotAt(h, v, i).val = SlotAt(h, w, i).val

\* what iteration from begin() to end() yields
Elems(h, v) == [i \in 1..v.size |-> SlotAt(h, v, i - 1).val]

\* a write through operator[] into a chunk that was given back to the allocator
Touch(S, i) ==
    IF S.h[ChunkOf(S.v, i)].st = "alloc" THEN S ELSE AddUB(S, "use_after_free")

PutSlot(S, i, s) ==
    [Touch(S, i) EXCEPT !.h[ChunkOf(S.v, i)].slots[i % ChunkSize] = s]

\* new (ptr) T(args...)
construct(S, i, val) == PutSlot(S, i, LiveSlot(val))

\* operator[](i) = val
assign(S, i, val) ==
    LET S1 == IF ~trivial /\ SlotAt(S.h, S.v, i).life # "live"
              THEN AddUB(S, "assign_to_unconstructed") ELSE S
    IN  PutSlot(S1, i, LiveSlot(val))

\* operator[](i).~value_type()
destroy(S, i) ==
    LET S1 == IF SlotAt(S.h, S.v, i).life # "live"
              THEN AddUB(S, "destroy_unconstructed") ELSE S
    IN  PutSlot(S1, i, RawSlot)

\* if (!std::is_trivially_destructible_v<value_type>) operator[](i).~value_type();
\* a trivially destructible element is left as it is and merely stops being
\* counted: nothing reads a slot at or after m_size, so its bytes are forgotten
drop(S, i) == IF trivial THEN PutSlot(S, i, RawSlot) ELSE destroy(S, i)

\* std::move(first, last, d_first) over positions of this container: each
\* element is move-assigned to its target, leaving a moved-from source
RECURSIVE move_range(_, _, _, _)
move_range(S, f, l, d) ==
    IF f >= l THEN S
    ELSE LET src == SlotAt(S.h, S.v, f)
             S1 == assign(S, d, src.val)
             S2 == IF trivial THEN S1 ELSE PutSlot(S1, f, [src EXCEPT !.val = 0])
         IN  move_range(S2, f + 1, l, d + 1)

RECURSIVE destroy_range(_, _, _)
destroy_range(S, f, l) ==
    IF f >= l THEN S ELSE destroy_range(destroy(S, f), f + 1, l)

----------------------------------------------------------------------------
\* Chunk directory and growth policy

FreeAddrs(h) == {a \in Addrs : h[a].st = "unused"}

\* a directory that puts the new chunk in front of the others
add_chunk_in_front(S) ==
    IF FreeAddrs(S.h) = {} THEN Throw(S, "bad_alloc")
    ELSE LET a == Min(FreeAddrs(S.h))
         IN  [S EXCEPT !.h[a] = [UnusedChunk EXCEPT !.st = "alloc", !.al = S.v.al],
                       !.v.chunks = <<a>> \o @,
                       !.v.dircap = Len(S.v.chunks) + 1]

\* allocate a chunk and m_chunks.push_back(chunk): a full directory moves to
\* a buffer of twice the size, so data() changes
add_chunk(S) ==
    IF FreeAddrs(S.h) = {} THEN Throw(S, "bad_alloc")
    ELSE LET a == Min(FreeAddrs(S.h))
             grow == Len(S.v.chunks) = S.v.dircap
         IN  [S EXCEPT !.h[a] = [UnusedChunk EXCEPT !.st = "alloc", !.al = S.v.al],
                       !.v.chunks = Append(@, a),
                       !.v.dircap = IF grow THEN Max(1, 2 * @) ELSE @,
                       !.v.dirbuf = IF grow THEN @ + 1 ELSE @]

\* a policy that allocates one append before the chunks are full
maybe_increase_capacity_early(S) ==
    IF S.v.size + 1 >= capacity(S.v) THEN add_chunk(S) ELSE S

maybe_increase_capacity(S) ==
    IF S.v.size = capacity(S.v) THEN add_chunk(S) ELSE S

push_back(S, val) ==
    LET S1 == maybe_increase_capacity(S)
    IN  IF S1.exc # "none" THEN S1
        ELSE [assign(S1, S1.v.size, val) EXCEPT !.v.size = AddMod(@, 1)]

emplace_back(S, val) ==
    LET S1 == maybe_increase_capacity(S)
    IN  IF S1.exc # "none" THEN S1
        ELSE [construct(S1, S1.v.size, val) EXCEPT !.v.size = AddMod(@, 1)]

\* emplace_back(args...) where T(args...) throws: nothing is placed in the
\* slot and ++m_size is not reached
emplace_back_throwing(S) ==
    LET S1 == maybe_increase_capacity(S)
    IN  IF S1.exc # "none" THEN S1 ELSE Throw(S1, "element_error")

\* emplace_back_with_result_of(f): new (ptr) T(f()), where f or T may throw
emplace_back_with_result_of(S, val, throws) ==
    LET S1 == maybe_increase_capacity(S)
    IN  IF S1.exc # "none" THEN S1
        ELSE IF throws THEN Throw(S1, "element_error")
        ELSE [construct(S1, S1.v.size, val) EXCEPT !.v.size = AddMod(@, 1)]

\* push_back(v) where T's assignment throws: an assignment operator that can
\* throw is the type's own code, run on a slot that holds no object
push_back_throwing(S) ==
    LET S1 == maybe_increase_capacity(S)
    IN  IF S1.exc # "none" THEN S1
        ELSE Throw(AddUB(S1, "assign_to_unconstructed"), "element_error")

\* a bounds test against the capacity
at_within_capacity(S, pos) ==
    IF pos >= capacity(S.v) THEN Throw(S, "out_of_range")
    ELSE [Touch(S, pos) EXCEPT !.ret = SlotAt(S.h, S.v, pos).val]

\* at(pos)
at(S, pos) ==
    IF pos >= S.v.size THEN Throw(S, "out_of_range")
    ELSE [Touch(S, pos) EXCEPT !.ret = SlotAt(S.h, S.v, pos).val]

\* a pop_back that destroys the first element
pop_back_front(S) ==
    IF S.v.size = 0 THEN S
    ELSE [drop(S, 0) EXCEPT !.v.size = SubMod(@, 1)]

\* a pop_back without the test for the empty container
pop_back_unchecked(S) ==
    IF S.v.size = 0 THEN [AddUB(S, "destroy_unconstructed") EXCEPT !.v.size = SubMod(@, 1)]
    ELSE [drop(S, S.v.size - 1) EXCEPT !.v.size = SubMod(@, 1)]

pop_back(S) ==
    IF S.v.size = 0 THEN S
    ELSE [drop(S, S.v.size - 1) EXCEPT !.v.size = SubMod(@, 1)]

RECURSIVE clear_from(_, _)
clear_from(S, i) ==
    IF i >= S.v.size THEN S ELSE clear_from(drop(S, i), i + 1)

\* a clear that also gives up the directory
clear_releasing(S) == [clear_from(S, 0) EXCEPT !.v.size = 0, !.v.chunks = <<>>]

clear(S) == [clear_from(S, 0) EXCEPT !.v.size = 0]

RECURSIVE reserve_loop(_, _)
reserve_loop(S, i) ==
    IF i = 0 \/ S.exc # "none" THEN S
    ELSE reserve_loop(add_chunk(S), SubMod(i, ChunkSize))

reserve(S, new_cap) == reserve_loop(S, SubMod(new_cap, capacity(S.v)))

\* the value of a call that ends without returning one
Indeterminate == -1

\* erase(iterator pos); "*pos.~value_type()" is read as the destruction of
\* the element at pos
erase(S, p) ==
    LET S1 == IF trivial THEN S ELSE destroy(S, p)
        S2 == move_range(S1, p + 1, S1.v.size, p)
    IN  [pop_back(S2) EXCEPT !.ret = p]

\* erase(iterator first, iterator last): the empty range leaves by "return;"
\* and the other path runs off the end, both without a value; the call the
\* function makes to itself is on a range as long as the one it was given
RECURSIVE erase_range(_, _, _, _)
erase_range(S, first, last, depth) ==
    IF first >= last
    THEN [AddUB(S, "no_return_value") EXCEPT !.ret = Indeterminate]
    ELSE IF depth >= MaxStack THEN Throw(S, "stack_overflow")
    ELSE LET n == last - first
             S1 == IF trivial THEN S ELSE destroy_range(S, first, last)
             S2 == move_range(S1, last, S1.v.size, first)
             S3 == erase_range(S2, S2.v.size - n, S2.v.size, depth + 1)
         IN  IF S3.exc # "none" THEN S3
             ELSE [AddUB(S3, "no_return_value") EXCEPT
                       !.v.size = SubMod(@, n), !.ret = Indeterminate]

----------------------------------------------------------------------------
\* Construction, destruction, copy, move, assignment

RECURSIVE free_from(_, _)
free_from(S, k) ==
    IF k > Len(S.v.chunks) THEN S
    ELSE LET a == S.v.chunks[k]
             S1 == IF S.h[a].st # "alloc" THEN AddUB(S, "double_free") ELSE S
         IN  free_from([S1 EXCEPT !.h[a] = [UnusedChunk EXCEPT !.st = "freed", !.al = S.h[a].al]],
                       k + 1)

\* the directory keeps the addresses it had
deallocate(S) == free_from(S, 1)

\* the value read from the other container's element i
OtherVal(S, i) == SlotAt(S.h, S.o, i).val

\* a read of the other container's element i through a chunk that was given
\* back to the allocator
TouchOther(S, i) ==
    IF S.h[ChunkOf(S.o, i)].st = "alloc" THEN S ELSE AddUB(S, "use_after_free")

RECURSIVE copy_from(_, _)
copy_from(S, i) ==
    IF i >= S.o.size \/ S.exc # "none" THEN S
    ELSE copy_from(emplace_back(TouchOther(S, i), OtherVal(S, i)), i + 1)

\* emplace_back_all_from_other(const chunk_vector&)
emplace_back_all_from_other(S) == copy_from(S, 0)

RECURSIVE move_from(_, _)
move_from(S, i) ==
    IF i >= S.o.size \/ S.exc # "none" THEN S
    ELSE LET S1 == emplace_back(TouchOther(S, i), OtherVal(S, i))
             S2 == IF trivial \/ S1.exc # "none" THEN S1
                   ELSE [S1 EXCEPT !.h[ChunkOf(S.o, i)].slots[i % ChunkSize].val = 0]
         IN  move_from(S2, i + 1)

\* emplace_back_all_from_other(chunk_vector&&)
emplace_back_all_from_moved(S) == move_from(S, 0)

\* a constructor that throws leaves no object, and no destructor runs
constructed(S) == IF S.exc # "none" THEN [S EXCEPT !.v = NoVec] ELSE S

\* a copy that takes over the directory of the other container
copy_construct_shallow(S) == [S EXCEPT !.v = S.o]

\* chunk_vector(const chunk_vector& other)
copy_construct(S) ==
    constructed(emplace_back_all_from_other([S EXCEPT !.v = EmptyVec(S.o.al)]))

\* chunk_vector(chunk_vector&& other) noexcept, which hands
\* chunk_vector(chunk_vector&&, const allocator_type&) the allocator al it reads
\* from the object under construction; there "other" is an lvalue, so the
\* overload taking const chunk_vector& is the one called
move_construct(S, al) ==
    noexcept(emplace_back_all_from_other([S EXCEPT !.v = EmptyVec(al)]))

\* ~chunk_vector()
destructor(S) == [deallocate(clear(S)) EXCEPT !.v = NoVec]

\* m_chunks = std::vector<pointer, chunk_allocator_type>(other.get_allocator())
rebind(S) ==
    [S EXCEPT !.v.chunks = <<>>, !.v.dirbuf = 0, !.v.dircap = 0, !.v.al = S.o.al]

\* operator=(const chunk_vector& other), this != &other
copy_assign(S) ==
    LET S1 == clear(S)
        S2 == IF pocca /\ S1.v.al # S1.o.al THEN rebind(S1) ELSE S1
    IN  emplace_back_all_from_other(S2)

\* operator=(chunk_vector&& other) noexcept, this != &other
move_assign(S) ==
    LET S1 == deallocate(clear(S))
    IN  IF S1.v.al = S1.o.al
        THEN [S1 EXCEPT !.v.chunks = S1.o.chunks, !.v.dirbuf = S1.o.dirbuf,
                        !.v.dircap = S1.o.dircap, !.v.size = S1.o.size,
                        !.o.chunks = <<>>, !.o.dirbuf = 0, !.o.dircap = 0, !.o.size = 0]
        ELSE noexcept(emplace_back_all_from_moved(IF pocma THEN rebind(S1) ELSE S1))

----------------------------------------------------------------------------
\* The outcome of a call: an exception or a normal return; after undefined
\* behaviour the call may also have crashed the program.

Outcome(S) == IF S.exc # "none" THEN S.exc ELSE "ok"

Commit(newvec, S, name, c, o, x, y) ==
    \/ /\ S.exc \notin Fatal
       /\ heap' = S.h
       /\ vec' = newvec
       /\ lastOp' = [name |-> name, c |-> c, o |-> o, x |-> x, y |-> y,
                     res |-> Outcome(S), ret |-> S.ret, ub |-> S.ub]
    \/ /\ S.ub # {} \/ S.exc \in Fatal
       /\ UNCHANGED <<heap, vec>>
       /\ lastOp' = [name |-> name, c |-> c, o |-> o, x |-> x, y |-> y,
                     res |-> "crash", ret |-> 0, ub |-> S.ub]

\* a member function of container c
Finish(c, S, name, x, y) ==
    Commit([vec EXCEPT ![c] = S.v], S, name, c, "none", x, y)

\* a member function of container c that is given container o
FinishBoth(c, o, S, name) ==
    Commit([vec EXCEPT ![c] = S.v, ![o] = S.o], S, name, c, o, 0, 0)

Running == lastOp.res # "crash"

KeepIt == UNCHANGED it
DropIt(c) == it' = IF it.c = c THEN NoIt ELSE it

Frame == UNCHANGED <<trivial, pocca, pocma, rt>>

PushBack(c, val) ==
    /\ Running /\ vec[c].alive /\ vec[c].size < MaxSize
    /\ Finish(c, push_back(Start(c, "none"), val), "push_back", val, 0)
    /\ KeepIt /\ Frame

EmplaceBack(c, val) ==
    /\ Running /\ vec[c].alive /\ vec[c].size < MaxSize
    /\ Finish(c, emplace_back(Start(c, "none"), val), "emplace_back", val, 0)
    /\ KeepIt /\ Frame

PopBack(c) ==
    /\ Running /\ vec[c].alive
    /\ Finish(c, pop_back(Start(c, "none")), "pop_back", 0, 0)
    /\ DropIt(c) /\ Frame

Clear(c) ==
    /\ Running /\ vec[c].alive
    /\ Finish(c, clear(Start(c, "none")), "clear", 0, 0)
    /\ DropIt(c) /\ Frame

Reserve(c, n) ==
    /\ Running /\ vec[c].alive
    /\ Finish(c, reserve(Start(c, "none"), n), "reserve", n, 0)
    /\ KeepIt /\ Frame

Erase(c, p) ==
    /\ Running /\ vec[c].alive /\ p < vec[c].size
    /\ Finish(c, erase(Start(c, "none"), p), "erase", p, 0)
    /\ DropIt(c) /\ Frame

\* a call that returns no value hands its caller whatever is there
EraseRange(c, first, last) ==
    /\ Running /\ vec[c].alive /\ first <= last /\ last <= vec[c].size
    /\ LET S == erase_range(Start(c, "none"), first, last, 0)
       IN  \E r \in IF S.ret = Indeterminate THEN 0..MaxSize ELSE {S.ret} :
              Finish(c, [S EXCEPT !.ret = r], "erase_range", first, last)
    /\ DropIt(c) /\ Frame

\* operator[](i) = val, by the caller
Write(c, i, val) ==
    /\ Running /\ vec[c].alive /\ i < vec[c].size
    /\ Finish(c, assign(Start(c, "none"), i, val), "write", i, val)
    /\ DropIt(c) /\ Frame

\* the appends when the element cannot be made; y = 1 marks them
EmplaceBackThrows(c) ==
    /\ Running /\ vec[c].alive /\ vec[c].size < MaxSize
    /\ Finish(c, emplace_back_throwing(Start(c, "none")), "emplace_back", 0, 1)
    /\ KeepIt /\ Frame

EmplaceBackWithResultOf(c, val, throws) ==
    /\ Running /\ vec[c].alive /\ vec[c].size < MaxSize
    /\ Finish(c, emplace_back_with_result_of(Start(c, "none"), val, throws),
              "emplace_back_with_result_of",
              IF throws THEN 0 ELSE val, IF throws THEN 1 ELSE 0)
    /\ KeepIt /\ Frame

PushBackThrows(c) ==
    /\ Running /\ vec[c].alive /\ vec[c].size < MaxSize
    /\ Finish(c, push_back_throwing(Start(c, "none")), "push_back", 0, 1)
    /\ KeepIt /\ Frame

At(c, pos) ==
    /\ Running /\ vec[c].alive
    /\ Finish(c, at(Start(c, "none"), pos), "at", pos, 0)
    /\ KeepIt /\ Frame

\* chunk_vector(const allocator_type& alloc)
Construct(c, al) ==
    /\ Running /\ ~vec[c].alive
    /\ Finish(c, [Start(c, "none") EXCEPT !.v = EmptyVec(al)], "construct", al, 0)
    /\ KeepIt /\ Frame

Destroy(c) ==
    /\ Running /\ vec[c].alive
    /\ Finish(c, destructor(Start(c, "none")), "destroy", 0, 0)
    /\ DropIt(c) /\ Frame

CopyConstruct(c, o) ==
    /\ Running /\ ~vec[c].alive /\ vec[o].alive
    /\ FinishBoth(c, o, copy_construct(Start(c, o)), "copy_construct")
    /\ KeepIt /\ Frame

MoveConstruct(c, o) ==
    /\ Running /\ ~vec[c].alive /\ vec[o].alive
    /\ \E al \in AllocIds :
          FinishBoth(c, o, move_construct(Start(c, o), al), "move_construct")
    /\ DropIt(o) /\ Frame

CopyAssign(c, o) ==
    /\ Running /\ vec[c].alive /\ vec[o].alive /\ c # o
    /\ FinishBoth(c, o, copy_assign(Start(c, o)), "copy_assign")
    /\ DropIt(c) /\ Frame

MoveAssign(c, o) ==
    /\ Running /\ vec[c].alive /\ vec[o].alive /\ c # o
    /\ FinishBoth(c, o, move_assign(Start(c, o)), "move_assign")
    /\ it' = (IF it.c \in {c, o} THEN NoIt ELSE it)
    /\ Frame

\* begin() + k
TakeIter(c, k) ==
    /\ Running /\ vec[c].alive /\ k < vec[c].size
    /\ it' = [c |-> c, buf |-> vec[c].dirbuf, idx |-> k]
    /\ UNCHANGED <<heap, vec, lastOp>> /\ Frame

\* *it: m_data[m_index / ChunkSize][m_index % ChunkSize], where m_data is the
\* data() of the directory at the time the iterator was made
Deref ==
    /\ Running /\ it # NoIt
    /\ LET v == vec[it.c]
           dangling == it.buf # v.dirbuf
       IN  \/ /\ ~dangling
              /\ lastOp' = [name |-> "deref", c |-> it.c, o |-> "none", x |-> it.idx, y |-> 0, res |-> "ok",
                            ret |-> SlotAt(heap, v, it.idx).val, ub |-> {}]
           \/ /\ dangling
              /\ \E r \in Values \cup {0} :
                    lastOp' = [name |-> "deref", c |-> it.c, o |-> "none", x |-> it.idx, y |-> 0, res |-> "ok",
                               ret |-> r, ub |-> {"dangling_iterator"}]
           \/ /\ dangling
              /\ lastOp' = [name |-> "deref", c |-> it.c, o |-> "none", x |-> it.idx, y |-> 0, res |-> "crash",
                            ret |-> 0, ub |-> {"dangling_iterator"}]
    /\ UNCHANGED <<heap, vec, it>> /\ Frame

----------------------------------------------------------------------------
\* myr::runtime

\* a registration that puts the callback at the head of the queue
register_callback_in_front(r) ==
    [r EXCEPT !.callbacks = <<r.made + 1>> \o @, !.made = @ + 1,
              !.late = IF r.pc = "callback" THEN @ + 1 ELSE @]

\* m_callbacks.push_back(cb)
register_callback(r) ==
    [r EXCEPT !.callbacks = Append(@, r.made + 1), !.made = @ + 1,
              !.late = IF r.pc = "callback" THEN @ + 1 ELSE @]

stop(r) == [r EXCEPT !.running = FALSE]

work_to_do(r) == r.callbacks # <<>>

\* start(): m_running = true, and into loop()
start(r) == [r EXCEPT !.running = TRUE, !.pc = "loop"]

\* while (m_running) { if (!work_to_do()) break; ... } m_running = false;
loop_test(r) ==
    IF r.running /\ work_to_do(r) THEN [r EXCEPT !.pc = "drain"]
    ELSE [r EXCEPT !.running = FALSE, !.pc = "idle"]

\* an inner loop that also ends when the flag is down
drain_test_while_running(r) ==
    IF r.callbacks # <<>> /\ r.running
    THEN [r EXCEPT !.pc = "callback", !.invoked = Append(@, Head(r.callbacks)),
                   !.active = @ \cup {Head(r.callbacks)}]
    ELSE [r EXCEPT !.pc = "loop"]

\* while (!m_callbacks.empty()) { auto&& callback = m_callbacks.front(); callback();
drain_test(r) ==
    IF r.callbacks # <<>>
    THEN [r EXCEPT !.pc = "callback", !.invoked = Append(@, Head(r.callbacks)),
                   !.active = @ \cup {Head(r.callbacks)}]
    ELSE [r EXCEPT !.pc = "loop"]

\* the callback returns; m_callbacks.pop_front(); }
callback_return(r) ==
    [r EXCEPT !.pc = "drain", !.active = @ \ {Head(r.callbacks)},
              !.callbacks = Tail(@)]

RuntimeFrame == UNCHANGED <<trivial, pocca, pocma, heap, vec, it, lastOp>>

\* register_callback, called by the program outside start() or by the
\* callback that is running
RegisterCallback ==
    /\ rt.pc \in {"idle", "callback"} /\ rt.made < MaxCallbacks
    /\ rt' = register_callback(rt)
    /\ RuntimeFrame

\* stop(), called by the program outside start() or by the callback that is
\* running
StopRuntime ==
    /\ rt.pc \in {"idle", "callback"}
    /\ rt' = stop(rt)
    /\ RuntimeFrame

StartRuntime ==
    /\ rt.pc = "idle"
    /\ rt' = start(rt)
    /\ RuntimeFrame

LoopTest ==
    /\ rt.pc = "loop"
    /\ rt' = loop_test(rt)
    /\ RuntimeFrame

DrainTest ==
    /\ rt.pc = "drain"
    /\ rt' = drain_test(rt)
    /\ RuntimeFrame

CallbackReturn ==
    /\ rt.pc = "callback"
    /\ rt' = callback_return(rt)
    /\ RuntimeFrame

----------------------------------------------------------------------------

Init ==
    /\ trivial \in BOOLEAN
    /\ pocca = FALSE
    /\ pocma = TRUE
    /\ heap = [a \in Addrs |-> UnusedChunk]
    /\ vec = [c \in Conts |-> IF c = "a" THEN EmptyVec(1) ELSE NoVec]
    /\ it = NoIt
    /\ lastOp = NoOp
    /\ rt = NewRuntime

\* one container, no iterator held
Next ==
    \/ \E val \in Values : EmplaceBack("a", val)
    \/ \E val \in Values : PushBack("a", val)
    \/ PopBack("a")
    \/ Clear("a")
    \/ \E n \in 0..MaxReserve : Reserve("a", n)
    \/ \E p \in 0..MaxSize : Erase("a", p)
    \/ \E first \in 0..MaxSize, last \in 0..MaxSize : EraseRange("a", first, last)

Spec == Init /\ [][Next]_vars

\* one container and an iterator into it
NextIter ==
    \/ \E val \in Values : EmplaceBack("a", val)
    \/ \E val \in Values : PushBack("a", val)
    \/ PopBack("a")
    \/ \E k \in 0..MaxSize : TakeIter("a", k)
    \/ Deref

SpecIter == Init /\ [][NextIter]_vars

\* two containers, with allocators that may differ
InitTwo ==
    /\ trivial \in BOOLEAN
    /\ pocca = FALSE
    /\ pocma \in BOOLEAN
    /\ heap = [a \in Addrs |-> UnusedChunk]
    /\ vec = [c \in Conts |-> IF c = "a" THEN EmptyVec(1) ELSE NoVec]
    /\ it = NoIt
    /\ lastOp = NoOp
    /\ rt = NewRuntime

\* a is filled with the values 1, 2, ... in turn and b, made beside it or
\* moved from it, with 2, 3, ..., and either is assigned to the other
NextTwo ==
    \/ EmplaceBack("a", (vec["a"].size % MaxValue) + 1)
    \/ EmplaceBack("b", ((vec["b"].size + 1) % MaxValue) + 1)
    \/ \E al \in AllocIds : Construct("b", al)
    \/ Destroy("b")
    \/ MoveConstruct("b", "a")
    \/ \E c, o \in Conts : CopyAssign(c, o)
    \/ \E c, o \in Conts : MoveAssign(c, o)

SpecTwo == InitTwo /\ [][NextTwo]_vars

\* a is filled with the values 1, 2, ... in turn, b is copied from it and
\* then changed
NextCopy ==
    \/ EmplaceBack("a", (vec["a"].size % MaxValue) + 1)
    \/ CopyConstruct("b", "a")
    \/ \E val \in Values : EmplaceBack("b", val)
    \/ \E val \in Values : PushBack("b", val)
    \/ PopBack("b")
    \/ Clear("b")
    \/ \E p \in 0..MaxSize : Erase("b", p)
    \/ \E i \in 0..MaxSize, val \in Values : Write("b", i, val)
    \/ Destroy("b")

SpecCopy == Init /\ [][NextCopy]_vars

\* two containers and every call that changes one: a is filled, shrunk,
\* erased from and reserved for, b is made beside it, and either is assigned
\* to the other
NextAll ==
    \/ EmplaceBack("a", 1)
    \/ PopBack("a")
    \/ Clear("a")
    \/ \E n \in {ChunkSize, MaxReserve} : Reserve("a", n)
    \/ \E p \in 0..MaxSize : Erase("a", p)
    \/ EraseRange("a", 0, 1)
    \/ \E al \in AllocIds : Construct("b", al)
    \/ \E c, o \in Conts : CopyAssign(c, o)
    \/ \E c, o \in Conts : MoveAssign(c, o)

SpecAll == InitTwo /\ [][NextAll]_vars

\* one container, appends that succeed and appends whose element cannot be
\* made, and checked access
NextAppend ==
    \/ \E val \in Values : EmplaceBack("a", val)
    \/ \E val \in Values : EmplaceBackWithResultOf("a", val, FALSE)
    \/ \E val \in Values : PushBack("a", val)
    \/ EmplaceBackThrows("a")
    \/ EmplaceBackWithResultOf("a", 0, TRUE)
    \/ PushBackThrows("a")
    \/ PopBack("a")
    \/ Clear("a")
    \/ \E pos \in 0..(MaxSize + ChunkSize) : At("a", pos)

SpecAppend == Init /\ [][NextAppend]_vars

\* two containers whose allocator is handed over by copy assignment
InitPocca ==
    /\ trivial \in BOOLEAN
    /\ pocca = TRUE
    /\ pocma = TRUE
    /\ heap = [a \in Addrs |-> UnusedChunk]
    /\ vec = [c \in Conts |-> IF c = "a" THEN EmptyVec(1) ELSE NoVec]
    /\ it = NoIt
    /\ lastOp = NoOp
    /\ rt = NewRuntime

\* a is filled with the values 1, 2, ... in turn and b, made beside it, with
\* 2, 3, ..., and either is copy-assigned to the other
NextPocca ==
    \/ EmplaceBack("a", (vec["a"].size % MaxValue) + 1)
    \/ EmplaceBack("b", ((vec["b"].size + 1) % MaxValue) + 1)
    \/ \E al \in AllocIds : Construct("b", al)
    \/ Destroy("b")
    \/ \E c, o \in Conts : CopyAssign(c, o)

SpecPocca == InitPocca /\ [][NextPocca]_vars

\* the runtime alone, beside an empty container
InitRuntime ==
    /\ trivial = TRUE
    /\ pocca = FALSE
    /\ pocma = TRUE
    /\ heap = [a \in Addrs |-> UnusedChunk]
    /\ vec = [c \in Conts |-> IF c = "a" THEN EmptyVec(1) ELSE NoVec]
    /\ it = NoIt
    /\ lastOp = NoOp
    /\ rt = NewRuntime

NextRuntime ==
    \/ RegisterCallback
    \/ StopRuntime
    \/ StartRuntime
    \/ LoopTest
    \/ DrainTest
    \/ CallbackReturn

SpecRuntime == InitRuntime /\ [][NextRuntime]_vars

----------------------------------------------------------------------------
\* Properties

Appends == {"push_back", "emplace_back"}

\* the sequence s without its k-th to (l-1)-th elements, counted from 0
Without(s, k, l) == SubSeq(s, 1, k) \o SubSeq(s, l + 1, Len(s))

\* C1: a push_back, emplace_back or reserve leaves every directory entry it
\* found where it was and allocated, so every constructed index resolves to
\* the chunk address and offset it resolved to before.
C1_ChunkAddressesStable ==
    [][lastOp'.name \in Appends \cup {"reserve"} =>
         \A c \in Conts :
            /\ Len(vec'[c].chunks) >= Len(vec[c].chunks)
            /\ \A k \in 1..Len(vec[c].chunks) :
                  /\ vec'[c].chunks[k] = vec[c].chunks[k]
                  /\ heap'[vec[c].chunks[k]].st = heap[vec[c].chunks[k]].st
            /\ \A i \in 0..(vec[c].size - 1) :
                  /\ ChunkOf(vec'[c], i) = ChunkOf(vec[c], i)
                  /\ SlotAt(heap', vec'[c], i) = SlotAt(heap, vec[c], i)]_vars

\* an append has just put an element into a chunk it had to allocate, with
\* another chunk already full
C1_Witness ==
    /\ lastOp.name \in Appends /\ lastOp.res = "ok"
    /\ vec["a"].size = ChunkSize + 1
    /\ Len(vec["a"].chunks) = 2

\* C2: dereferencing an iterator made before any number of appends yields
\* the element at its index.
C2_IteratorSurvivesAppend ==
    lastOp.name = "deref" =>
        /\ lastOp.res = "ok"
        /\ lastOp.ret = SlotAt(heap, vec[lastOp.c], lastOp.x).val

\* C3: each append that does not fail for want of memory adds its value at
\* the end and leaves the elements before it, so N appends to an empty
\* container give size N and the values in append order.
C3_AppendsInOrder ==
    [][lastOp'.name \in Appends =>
         \/ /\ lastOp'.res = "ok"
            /\ vec'["a"].size = vec["a"].size + 1
            /\ Elems(heap', vec'["a"]) = Append(Elems(heap, vec["a"]), lastOp'.x)
         \/ /\ lastOp'.res = "bad_alloc"
            /\ Elems(heap', vec'["a"]) = Elems(heap, vec["a"])]_vars

\* C4: a move construction or move assignment returns with the source at
\* size 0 and the destination holding the source's elements in order.
C4_MoveEmptiesSource ==
    [][lastOp'.name \in {"move_construct", "move_assign"} =>
         /\ lastOp'.res = "ok"
         /\ vec'[lastOp'.o].size = 0
         /\ Elems(heap', vec'[lastOp'.c]) = Elems(heap, vec[lastOp'.o])]_vars

ChunkSet(v) == {v.chunks[k] : k \in 1..Len(v.chunks)}

\* C5: a copy-constructed container compares equal to its source and shares
\* no chunk with it, and no call on the copy changes the source's directory,
\* size or elements.
C5_CopyIsEqualAndIndependent ==
    [][/\ lastOp'.name = "copy_construct" /\ lastOp'.res = "ok" =>
             /\ equal(heap', vec'["b"], vec'["a"])
             /\ Elems(heap', vec'["b"]) = Elems(heap, vec["a"])
       /\ vec'["b"].alive => ChunkSet(vec'["a"]) \cap ChunkSet(vec'["b"]) = {}
       /\ lastOp'.c = "b" =>
             /\ vec'["a"] = vec["a"]
             /\ Elems(heap', vec'["a"]) = Elems(heap, vec["a"])]_vars

\* the copy of a two-element container has had an element overwritten and
\* so differs from its source
C5_Witness ==
    /\ lastOp.name = "write" /\ lastOp.c = "b" /\ lastOp.res = "ok"
    /\ vec["a"].size = 2 /\ vec["b"].size = 2
    /\ Len(vec["b"].chunks) = 1
    /\ Elems(heap, vec["a"]) # Elems(heap, vec["b"])

\* C6: erase at position p returns normally with size n - 1, the elements
\* before p as they were, those after p one place down, and the position p.
C6_EraseShiftsDown ==
    [][lastOp'.name = "erase" =>
         /\ lastOp'.res = "ok"
         /\ vec'["a"].size = vec["a"].size - 1
         /\ Elems(heap', vec'["a"]) = Without(Elems(heap, vec["a"]), lastOp'.x, lastOp'.x + 1)
         /\ lastOp'.ret = lastOp'.x]_vars

\* C7: erase of the range [first, last), first < last, returns normally with
\* size n - (last - first), the elements of the range gone, the others in
\* order, and the position first.
C7_RangeEraseShiftsDown ==
    [][lastOp'.name = "erase_range" /\ lastOp'.x < lastOp'.y =>
         /\ lastOp'.res = "ok"
         /\ vec'["a"].size = vec["a"].size - (lastOp'.y - lastOp'.x)
         /\ Elems(heap', vec'["a"]) = Without(Elems(heap, vec["a"]), lastOp'.x, lastOp'.y)
         /\ lastOp'.ret = lastOp'.x]_vars

\* C8: erase of an empty range changes nothing and returns the position first.
C8_EmptyRangeEraseIsNoOp ==
    [][lastOp'.name = "erase_range" /\ lastOp'.x = lastOp'.y =>
         /\ lastOp'.res = "ok"
         /\ vec' = vec /\ heap' = heap
         /\ lastOp'.ret = lastOp'.x]_vars

\* the chunks reserve(n) needs and the allocator still has
Needed(v, n) == (n - capacity(v) + ChunkSize - 1) \div ChunkSize
Available(h) == Cardinality(FreeAddrs(h))

\* C9: reserve(n) with n above the capacity, given the memory for it, returns
\* having stopped at the first capacity that is at least n, with size and
\* elements as they were.
C9_ReserveGrowsToN ==
    [][/\ lastOp'.name = "reserve"
       /\ lastOp'.x > capacity(vec["a"])
       /\ Needed(vec["a"], lastOp'.x) <= Available(heap)
       => /\ lastOp'.res = "ok"
          /\ capacity(vec'["a"]) >= lastOp'.x
          /\ capacity(vec'["a"]) < lastOp'.x + ChunkSize
          /\ vec'["a"].size = vec["a"].size
          /\ Elems(heap', vec'["a"]) = Elems(heap, vec["a"])]_vars

\* C10: reserve(n) with n at or below the capacity allocates nothing and
\* changes nothing.
C10_ReserveWithinCapacityIsNoOp ==
    [][lastOp'.name = "reserve" /\ lastOp'.x <= capacity(vec["a"]) =>
         /\ lastOp'.res = "ok"
         /\ vec' = vec /\ heap' = heap]_vars

\* C11: across append, pop_back, clear, erase, range erase and reserve the
\* capacity is a multiple of ChunkSize and does not decrease: every directory
\* entry stays where it is and its chunk stays allocated.
C11_CapacityNeverDecreases ==
    [][/\ capacity(vec'["a"]) % ChunkSize = 0
       /\ capacity(vec'["a"]) >= capacity(vec["a"])
       /\ \A k \in 1..Len(vec["a"].chunks) :
             /\ vec'["a"].chunks[k] = vec["a"].chunks[k]
             /\ heap'[vec["a"].chunks[k]].st = "alloc"]_vars

\* a container that had grown to two chunks has just been cleared
C11_Witness ==
    /\ lastOp.name = "clear" /\ lastOp.res = "ok"
    /\ vec["a"].size = 0
    /\ Len(vec["a"].chunks) = 2

\* C12: whatever calls were made, every container has size() <= capacity()
\* and capacity() is the number of directory entries times ChunkSize.
C12_SizeWithinCapacity ==
    \A c \in Conts :
        vec[c].alive =>
            /\ vec[c].size <= capacity(vec[c])
            /\ capacity(vec[c]) = Len(vec[c].chunks) * ChunkSize

\* a container that was assigned two elements fills its only chunk
C12_Witness ==
    /\ lastOp.name \in {"copy_assign", "move_assign"} /\ lastOp.res = "ok"
    /\ lastOp.c = "b"
    /\ vec["b"].size = ChunkSize
    /\ capacity(vec["b"]) = ChunkSize

AllAppends == Appends \cup {"emplace_back_with_result_of"}

\* C13: an append whose element cannot be made, the memory being there,
\* signals that error with the size and the elements as they were and the
\* slot at index size() raw.
C13_FailedAppendChangesNothing ==
    [][/\ lastOp'.name \in AllAppends /\ lastOp'.y = 1
       /\ lastOp'.res # "bad_alloc"
       => /\ lastOp'.res = "element_error"
          /\ vec'["a"].size = vec["a"].size
          /\ Elems(heap', vec'["a"]) = Elems(heap, vec["a"])
          /\ SlotAt(heap', vec'["a"], vec'["a"].size) = RawSlot]_vars

\* C14: at(i) signals out_of_range exactly when i >= size(), otherwise
\* returns the element operator[] yields at i, and changes nothing.
C14_AtChecksAgainstSize ==
    [][lastOp'.name = "at" =>
         /\ vec' = vec /\ heap' = heap
         /\ lastOp'.res = "out_of_range" <=> lastOp'.x >= vec["a"].size
         /\ lastOp'.x < vec["a"].size =>
               /\ lastOp'.res = "ok"
               /\ lastOp'.ret = SlotAt(heap, vec["a"], lastOp'.x).val]_vars

\* at was refused an index that lies within the capacity of a container
\* that holds elements
C14_Witness ==
    /\ lastOp.name = "at" /\ lastOp.res = "out_of_range"
    /\ vec["a"].size > 0
    /\ lastOp.x >= vec["a"].size
    /\ lastOp.x < capacity(vec["a"])

\* C15: pop_back on an empty container changes nothing; otherwise it
\* destroys the element at size - 1 and no other, takes one off the size and
\* leaves the other elements and the directory as they were.
C15_PopBackRemovesLast ==
    [][lastOp'.name = "pop_back" =>
         LET v == vec["a"] IN
         /\ lastOp'.res = "ok"
         /\ IF v.size = 0
            THEN vec' = vec /\ heap' = heap
            ELSE /\ vec' = [vec EXCEPT !["a"].size = v.size - 1]
                 /\ SlotAt(heap, v, v.size - 1).life = "live"
                 /\ SlotAt(heap', v, v.size - 1) = RawSlot
                 /\ Elems(heap', vec'["a"]) = SubSeq(Elems(heap, v), 1, v.size - 1)
                 /\ \A a \in Addrs, k \in 0..(ChunkSize - 1) :
                       \/ a = ChunkOf(v, v.size - 1) /\ k = (v.size - 1) % ChunkSize
                       \/ heap'[a].slots[k] = heap[a].slots[k]
                 /\ \A a \in Addrs : heap'[a].st = heap[a].st]_vars

\* the only element of the second chunk has just been popped
C15_Witness ==
    /\ lastOp.name = "pop_back" /\ lastOp.res = "ok"
    /\ vec["a"].size = ChunkSize
    /\ Len(vec["a"].chunks) = 2
    /\ ~trivial

\* the callbacks 1..n in the order of their registration
InOrder(n) == [i \in 1..n |-> i]

\* C16: a callback is begun only when none is in progress, the callbacks
\* are begun in the order of their registration, each once, and when start()
\* returns every callback registered so far, before start() or by a callback,
\* has been run.
C16_CallbacksRunOnceInOrder ==
    [][/\ rt'.invoked # rt.invoked =>
             /\ rt.active = {}
             /\ rt'.invoked = Append(rt.invoked, Len(rt.invoked) + 1)
       /\ Cardinality(rt'.active) <= 1
       /\ rt'.invoked = InOrder(Len(rt'.invoked))
       /\ rt.pc # "idle" /\ rt'.pc = "idle" =>
             /\ rt'.active = {}
             /\ rt'.invoked = InOrder(rt'.made)]_vars

\* start() has returned after running callbacks registered before it and
\* callbacks registered by callbacks
C16_Witness ==
    /\ rt.pc = "idle"
    /\ rt.made = MaxCallbacks
    /\ rt.late >= 2
    /\ rt.invoked = InOrder(MaxCallbacks)

\* C17: after every call a slot holds a live element exactly when its index
\* is below size(), and the call neither assigned to nor destroyed a slot
\* that held no element.
C17_LiveIffCounted ==
    /\ lastOp.ub \cap {"assign_to_unconstructed", "destroy_unconstructed"} = {}
    /\ \A i \in 0..(capacity(vec["a"]) - 1) :
          SlotAt(heap, vec["a"], i).life = "live" <=> i < vec["a"].size

ChunksIn(c) == IF vec[c].alive THEN ChunkSet(vec[c]) ELSE {}

\* C18: no call frees a chunk twice or reads or writes a freed chunk, and
\* no directory holds the address of a chunk that was freed.
C18_NoFreedChunkInDirectory ==
    /\ lastOp.ub \cap {"double_free", "use_after_free"} = {}
    /\ \A c \in Conts : \A a \in ChunksIn(c) : heap[a].st = "alloc"

\* C19: a range erase over a valid range that holds an element comes to an
\* end and returns to its caller.
C19_RangeEraseTerminates ==
    lastOp.name = "erase_range" /\ lastOp.x < lastOp.y => lastOp.res = "ok"

\* C20: a copy assignment between containers whose allocators differ, the
\* allocator being handed over, leaves none of the chunks the destination
\* held allocated, and when it returns the destination equals the source.
C20_CopyAssignReleasesOldChunks ==
    [][/\ lastOp'.name = "copy_assign" /\ pocca
       /\ vec[lastOp'.c].al # vec[lastOp'.o].al
       => /\ \A a \in ChunkSet(vec[lastOp'.c]) : heap'[a].st # "alloc"
          /\ lastOp'.res = "ok" =>
                equal(heap', vec'[lastOp'.c], vec'[lastOp'.o])]_vars

\* the chunks n elements take
ChunksFor(n) == (n + ChunkSize - 1) \div ChunkSize

\* C21: an append that returns, with its element or with the error of making
\* it, has allocated one chunk if size() = capacity() held before it and none
\* otherwise, and has left every chunk that was there as it was but for the
\* slot of the new element; so a directory of as many chunks as the elements
\* take stays one over appends that succeed.
C21_OneChunkWhenFull ==
    [][lastOp'.name \in AllAppends /\ lastOp'.res \in {"ok", "element_error"} =>
         LET v == vec["a"]
             w == vec'["a"]
             full == v.size = capacity(v)
         IN  /\ Len(w.chunks) = Len(v.chunks) + (IF full THEN 1 ELSE 0)
             /\ Cardinality(FreeAddrs(heap')) =
                    Cardinality(FreeAddrs(heap)) - (IF full THEN 1 ELSE 0)
             /\ SubSeq(w.chunks, 1, Len(v.chunks)) = v.chunks
             /\ \A k \in 1..Len(v.chunks) :
                   /\ heap'[v.chunks[k]].st = heap[v.chunks[k]].st
                   /\ \A j \in 0..(ChunkSize - 1) :
                         \/ (k - 1) * ChunkSize + j = v.size
                         \/ heap'[v.chunks[k]].slots[j] = heap[v.chunks[k]].slots[j]
             /\ lastOp'.res = "ok" /\ Len(v.chunks) = ChunksFor(v.size) =>
                   Len(w.chunks) = ChunksFor(w.size)]_vars

\* appends alone have filled one chunk and begun the next
C21_Witness ==
    /\ lastOp.name \in AllAppends /\ lastOp.res = "ok"
    /\ vec["a"].size = MaxSize
    /\ Len(vec["a"].chunks) = ChunksFor(MaxSize)
    /\ Cardinality(FreeAddrs(heap)) = MaxChunks - ChunksFor(MaxSize)

\* C22: start() returns only with the queue empty, no callback in progress
\* and the flag down; while callbacks wait the next one is begun whatever the
\* flag says, so a stop() from a callback leaves none of them out; and with
\* the queue empty at the loop's test start() returns without a call.
C22_StartDrainsTheQueue ==
    [][/\ rt.pc # "idle" /\ rt'.pc = "idle" =>
             /\ rt'.callbacks = <<>>
             /\ rt'.active = {}
             /\ ~rt'.running
             /\ Len(rt'.invoked) = rt'.made
       /\ rt.pc = "drain" /\ rt.callbacks # <<>> =>
             /\ rt'.pc = "callback"
             /\ rt'.invoked = Append(rt.invoked, Head(rt.callbacks))
       /\ rt.pc = "loop" /\ rt.callbacks = <<>> =>
             /\ rt'.pc = "idle"
             /\ rt'.invoked = rt.invoked]_vars

\* a callback that called stop() has returned while callbacks wait, one of
\* them registered by a callback
C22_Witness ==
    /\ rt.pc = "drain"
    /\ ~rt.running
    /\ Len(rt.callbacks) >= 2
    /\ rt.late >= 1

====
